---------------------------- MODULE Spec2Model ----------------------------
(***************************************************************************)
(* A model of the AI voice agent: the call record table (database.py), the *)
(* outbound call initiator and the webhook handlers (main.py), and the     *)
(* call handler with its keyword intent classifier (call_handler.py).      *)
(*                                                                         *)
(* Scheduling.  Every endpoint and the background task are coroutines on   *)
(* one asyncio event loop.  A coroutine gives up the loop only where an    *)
(* await really suspends: `await request.json()` in handle_call_webhook    *)
(* and the httpx request inside make_outbound_call.  The awaits on         *)
(* handle_vapi_webhook, handle_twilio_webhook and handle_inbound_call run  *)
(* the callee to completion without suspending, and every SQLAlchemy call  *)
(* is synchronous.  So a delivery is two steps, Receive up to              *)
(* `await request.json()` and Resume for the rest, and the background task *)
(* with simulation mode off is two steps, Dial up to the provider request  *)
(* and HandleOutboundCall from its answer; other requests and tasks run    *)
(* between the two halves.                                                 *)
(***************************************************************************)
EXTENDS Integers, Sequences, FiniteSets, TLC

VARIABLES
    rows,       \* table call_records, in primary key order (committed state)
    now,        \* the value the next datetime.now() returns
    config,     \* CallHandler's configuration, read from the environment
    nextUuid,   \* how many uuid4() values have been drawn
    tasks,      \* background tasks scheduled and not yet finished
    inflight,   \* webhook deliveries suspended in `await request.json()`
    log         \* one entry per finished request or background task

vars == <<rows, now, config, nextUuid, tasks, inflight, log>>

\* Python's None; a payload key bound to None stands for an absent key.
None == "None"

\* A NULL end_time column.
NullTime == 0

\* A key of the JSON body that is present and bound to null: request.json()
\* gives Python's None for it, where an absent key gives the .get() default.
JsonNull == "<null>"

\* What an f-string makes of a payload value.
PyStr(v) == IF v = JsonNull THEN "None" ELSE v

\* A string that UTF-8 cannot encode (a lone surrogate, which JSON can
\* carry as "\\ud800"): print() to stdout and sqlite3's parameter binding
\* raise UnicodeEncodeError on it.
LoneSurrogate == "\\ud800"

Encodable(v) == v # LoneSurrogate

\* data.get(key, default) for the value v the payload holds under key: the
\* default for an absent key, Python's None for a key bound to JSON null.
DictGet(v, default) ==
    IF v = None THEN default ELSE IF v = JsonNull THEN None ELSE v

(***************************************************************************)
(* Strings.  TLC's strings are atomic, so the strings the classifier       *)
(* searches are spelled out as character sequences.                        *)
(***************************************************************************)
Chars(s) ==
    CASE s = "" -> <<>>
      [] s = "I need help with my account" -> <<"I", " ", "n", "e", "e", "d", " ", "h", "e", "l", "p", " ", "w", "i", "t", "h", " ", "m", "y", " ", "a", "c", "c", "o", "u", "n", "t">>
      [] s = "Thanks for your help" -> <<"T", "h", "a", "n", "k", "s", " ", "f", "o", "r", " ", "y", "o", "u", "r", " ", "h", "e", "l", "p">>
      [] s = "Is my friend there" -> <<"I", "s", " ", "m", "y", " ", "f", "r", "i", "e", "n", "d", " ", "t", "h", "e", "r", "e">>
      [] s = "What time is it" -> <<"W", "h", "a", "t", " ", "t", "i", "m", "e", " ", "i", "s", " ", "i", "t">>
      [] s = "Help me book a meeting" -> <<"H", "e", "l", "p", " ", "m", "e", " ", "b", "o", "o", "k", " ", "a", " ", "m", "e", "e", "t", "i", "n", "g">>
      [] s = "Please book an appointment" -> <<"P", "l", "e", "a", "s", "e", " ", "b", "o", "o", "k", " ", "a", "n", " ", "a", "p", "p", "o", "i", "n", "t", "m", "e", "n", "t">>
      [] s = "thank you, I appreciate it" -> <<"t", "h", "a", "n", "k", " ", "y", "o", "u", ",", " ", "I", " ", "a", "p", "p", "r", "e", "c", "i", "a", "t", "e", " ", "i", "t">>
      [] s = "Can I speak to a human" -> <<"C", "a", "n", " ", "I", " ", "s", "p", "e", "a", "k", " ", "t", "o", " ", "a", " ", "h", "u", "m", "a", "n">>
      [] s = "STOP" -> <<"S", "T", "O", "P">>
      [] s = "cancel my appointment" -> <<"c", "a", "n", "c", "e", "l", " ", "m", "y", " ", "a", "p", "p", "o", "i", "n", "t", "m", "e", "n", "t">>
      [] s = "agent, thanks" -> <<"a", "g", "e", "n", "t", ",", " ", "t", "h", "a", "n", "k", "s">>
      [] s = "stop the agent" -> <<"s", "t", "o", "p", " ", "t", "h", "e", " ", "a", "g", "e", "n", "t">>
      [] s = "I want to end the call" -> <<"I", " ", "w", "a", "n", "t", " ", "t", "o", " ", "e", "n", "d", " ", "t", "h", "e", " ", "c", "a", "l", "l">>
      [] s = "help" -> <<"h", "e", "l", "p">>
      [] s = "support" -> <<"s", "u", "p", "p", "o", "r", "t">>
      [] s = "problem" -> <<"p", "r", "o", "b", "l", "e", "m">>
      [] s = "issue" -> <<"i", "s", "s", "u", "e">>
      [] s = "schedule" -> <<"s", "c", "h", "e", "d", "u", "l", "e">>
      [] s = "appointment" -> <<"a", "p", "p", "o", "i", "n", "t", "m", "e", "n", "t">>
      [] s = "book" -> <<"b", "o", "o", "k">>
      [] s = "meeting" -> <<"m", "e", "e", "t", "i", "n", "g">>
      [] s = "thank" -> <<"t", "h", "a", "n", "k">>
      [] s = "thanks" -> <<"t", "h", "a", "n", "k", "s">>
      [] s = "appreciate" -> <<"a", "p", "p", "r", "e", "c", "i", "a", "t", "e">>
      [] s = "speak" -> <<"s", "p", "e", "a", "k">>
      [] s = "human" -> <<"h", "u", "m", "a", "n">>
      [] s = "agent" -> <<"a", "g", "e", "n", "t">>
      [] s = "representative" -> <<"r", "e", "p", "r", "e", "s", "e", "n", "t", "a", "t", "i", "v", "e">>
      [] s = "cancel" -> <<"c", "a", "n", "c", "e", "l">>
      [] s = "stop" -> <<"s", "t", "o", "p">>
      [] s = "end" -> <<"e", "n", "d">>

\* str.lower() on one character.
LowerChar(c) ==
    CASE c = "A" -> "a"
      [] c = "B" -> "b"
      [] c = "C" -> "c"
      [] c = "D" -> "d"
      [] c = "E" -> "e"
      [] c = "F" -> "f"
      [] c = "G" -> "g"
      [] c = "H" -> "h"
      [] c = "I" -> "i"
      [] c = "J" -> "j"
      [] c = "K" -> "k"
      [] c = "L" -> "l"
      [] c = "M" -> "m"
      [] c = "N" -> "n"
      [] c = "O" -> "o"
      [] c = "P" -> "p"
      [] c = "Q" -> "q"
      [] c = "R" -> "r"
      [] c = "S" -> "s"
      [] c = "T" -> "t"
      [] c = "U" -> "u"
      [] c = "V" -> "v"
      [] c = "W" -> "w"
      [] c = "X" -> "x"
      [] c = "Y" -> "y"
      [] c = "Z" -> "z"
      [] OTHER -> c

\* transcript.lower()
Lower(cs) == [i \in 1..Len(cs) |-> LowerChar(cs[i])]

\* Python's `needle in hay` on strings.
Contains(hay, needle) ==
    \E i \in 0..(Len(hay) - Len(needle)) :
        \A j \in 1..Len(needle) : hay[i + j] = needle[j]

\* any(word in transcript_lower for word in words)
AnyWordIn(words, transcript_lower) ==
    \E w \in words : Contains(transcript_lower, Chars(w))

SupportWords   == {"help", "support", "problem", "issue"}
ScheduleWords  == {"schedule", "appointment", "book", "meeting"}
GratitudeWords == {"thank", "thanks", "appreciate"}
AgentWords     == {"speak", "human", "agent", "representative"}
TerminateWords == {"cancel", "stop", "end"}

\* Mutant of DetectIntent: the transcript is compared with each word
\* (word == transcript_lower) where the code searches for it.
DetectIntentWholeMatch(transcript) ==
    LET transcript_lower == Lower(Chars(transcript)) IN
    IF \E w \in SupportWords : Chars(w) = transcript_lower THEN "support"
    ELSE IF \E w \in ScheduleWords : Chars(w) = transcript_lower THEN "schedule"
    ELSE IF \E w \in GratitudeWords : Chars(w) = transcript_lower THEN "gratitude"
    ELSE IF \E w \in AgentWords : Chars(w) = transcript_lower THEN "agent_request"
    ELSE IF \E w \in TerminateWords : Chars(w) = transcript_lower THEN "terminate"
    ELSE "general"

\* Mutant of DetectIntent: gratitude is looked for before support.
DetectIntentGratitudeFirst(transcript) ==
    LET transcript_lower == Lower(Chars(transcript)) IN
    IF AnyWordIn(GratitudeWords, transcript_lower) THEN "gratitude"
    ELSE IF AnyWordIn(SupportWords, transcript_lower) THEN "support"
    ELSE IF AnyWordIn(ScheduleWords, transcript_lower) THEN "schedule"
    ELSE IF AnyWordIn(AgentWords, transcript_lower) THEN "agent_request"
    ELSE IF AnyWordIn(TerminateWords, transcript_lower) THEN "terminate"
    ELSE "general"

\* CallHandler._detect_intent
DetectIntent(transcript) ==
    LET transcript_lower == Lower(Chars(transcript)) IN
    IF AnyWordIn(SupportWords, transcript_lower) THEN "support"
    ELSE IF AnyWordIn(ScheduleWords, transcript_lower) THEN "schedule"
    ELSE IF AnyWordIn(GratitudeWords, transcript_lower) THEN "gratitude"
    ELSE IF AnyWordIn(AgentWords, transcript_lower) THEN "agent_request"
    ELSE IF AnyWordIn(TerminateWords, transcript_lower) THEN "terminate"
    ELSE "general"

\* CallHandler._generate_response
GenerateResponse(intent) ==
    CASE intent = "support" -> "I understand you're having an issue. Could you please describe the problem in more detail so I can assist you better?"
      [] intent = "schedule" -> "I'd be happy to help you schedule an appointment. What day and time works best for you?"
      [] intent = "gratitude" -> "You're welcome! Is there anything else I can help with today?"
      [] intent = "agent_request" -> "I'll connect you with a customer support agent right away. Please hold while I transfer your call."
      [] intent = "terminate" -> "Thank you for calling. Have a great day!"
      [] intent = "general" -> "How can I assist you further today?"
      [] OTHER -> "I'm here to help. What can I do for you?"

(***************************************************************************)
(* Responses.  A JSON body is a record of the keys the code may emit; a    *)
(* key bound to None is absent from the body.                              *)
(***************************************************************************)
Body(action, text, intent, status, content) ==
    [action |-> action, text |-> text, intent |-> intent, status |-> status,
     content |-> content]

NoBody == Body(None, None, None, None, None)

\* CallHandler.handle_inbound_call leaves by an exception: in simulation
\* mode it prints the payload's from, which stdout must be able to encode;
\* outside simulation mode _detect_intent calls .lower() on the transcript,
\* which a null transcript does not have.
HandleInboundCallRaises(call_data, simulation_mode) ==
    IF simulation_mode
    THEN ~Encodable(DictGet(call_data.from, None))
    ELSE /\ call_data.event = "transcription"
         /\ call_data.transcript = JsonNull

\* Mutant of HandleInboundCall: the reply to a transcription carries no intent.
HandleInboundCallNoIntent(call_data, simulation_mode) ==
    IF simulation_mode
    THEN Body("talk", "Thanks for calling. This is a simulated response.", None, None, None)
    ELSE IF call_data.event = "call.started"
    THEN Body("talk", "Thank you for calling. How can I help you today?", None, None, None)
    ELSE IF call_data.event = "transcription"
    THEN LET transcript == IF call_data.transcript = None THEN "" ELSE call_data.transcript
             intent == DetectIntent(transcript)
         IN  Body("talk", GenerateResponse(intent), None, None, None)
    ELSE IF call_data.event \in {"call.ended", "call.completed"}
    THEN Body(None, None, None, "call_ended", None)
    ELSE Body("talk", "I'm listening. How can I assist you?", None, None, None)

\* CallHandler.handle_inbound_call
HandleInboundCall(call_data, simulation_mode) ==
    IF simulation_mode
    THEN Body("talk", "Thanks for calling. This is a simulated response.", None, None, None)
    ELSE IF call_data.event = "call.started"
    THEN Body("talk", "Thank you for calling. How can I help you today?", None, None, None)
    ELSE IF call_data.event = "transcription"
    THEN LET transcript == IF call_data.transcript = None THEN "" ELSE call_data.transcript
             intent == DetectIntent(transcript)
         IN  Body("talk", GenerateResponse(intent), intent, None, None)
    ELSE IF call_data.event \in {"call.ended", "call.completed"}
    THEN Body(None, None, None, "call_ended", None)
    ELSE Body("talk", "I'm listening. How can I assist you?", None, None, None)

(***************************************************************************)
(* The call_records table and a request's session.                         *)
(***************************************************************************)
\* CallRecord(...): the columns the constructor leaves out are NULL.
CallRecord(call_id, phone_number, direction, start_time, status, transcript) ==
    [call_id |-> call_id, phone_number |-> phone_number, direction |-> direction,
     start_time |-> start_time, end_time |-> NullTime, status |-> status,
     transcript |-> transcript, intent |-> None]

\* One turn of the transcript text: the piece f"\n{speaker}: {text}".
Line(speaker, text) == [speaker |-> speaker, text |-> text]

\* Mutant of QueryFirst: a lookup that finds no row.
QueryFirstNeverFinds(table, call_id) == 0

\* db.query(CallRecord).filter(CallRecord.call_id == call_id).first():
\* the primary key of the first row found, 0 for no row.  A None call_id
\* compiles to IS NULL and finds the rows whose call_id is NULL.
QueryFirst(table, call_id) ==
    LET found == {i \in 1..Len(table) : table[i].call_id = call_id} IN
    IF found = {} THEN 0 ELSE CHOOSE i \in found : \A j \in found : i <= j

\* The UNIQUE index on call_id refuses a second row with the same non-NULL key.
UniqueViolation(table, rec) ==
    /\ rec.call_id # None
    /\ \E i \in 1..Len(table) : table[i].call_id = rec.call_id

\* The INSERT binds every column of the new row: sqlite3 raises on a
\* phone_number it cannot encode.  (An UPDATE binds the changed columns only,
\* and no handler changes phone_number.)
BindRaises(rec) == ~Encodable(rec.phone_number)

\* Mutant of Commit: the UPDATE of a loaded object is never written.
CommitUpdateLost(table, pk, rec) ==
    IF pk = 0
    THEN IF UniqueViolation(table, rec) \/ BindRaises(rec)
         THEN [raised |-> TRUE, table |-> table, pk |-> 0]
         ELSE [raised |-> FALSE, table |-> Append(table, rec), pk |-> Len(table) + 1]
    ELSE [raised |-> FALSE, table |-> table, pk |-> pk]

\* db.commit() for the one object the session holds: an INSERT for an added
\* object (pk = 0), an UPDATE for a loaded one.  A refused INSERT raises
\* (IntegrityError, UnicodeEncodeError) and stores nothing.
Commit(table, pk, rec) ==
    IF pk = 0
    THEN IF UniqueViolation(table, rec) \/ BindRaises(rec)
         THEN [raised |-> TRUE, table |-> table, pk |-> 0]
         ELSE [raised |-> FALSE, table |-> Append(table, rec), pk |-> Len(table) + 1]
    ELSE [raised |-> FALSE, table |-> [table EXCEPT ![pk] = rec], pk |-> pk]

\* An exception leaves a handler before db.commit(): the session
\* (autocommit=False, autoflush=False) is dropped with its pending changes.
Abandon(table, pk, rec) == table

\* What a handler hands back: the table as committed, the JSON body, and
\* whether an exception left the handler.
Outcome(table, body, raised) == [table |-> table, body |-> body, raised |-> raised]

(***************************************************************************)
(* Webhook payloads: the JSON body's keys and the call_id query parameter. *)
(***************************************************************************)
Payload(query_call_id, call_id, event, from, transcript, CallSid, CallStatus, Direction, From, RecordingUrl) ==
    [query_call_id |-> query_call_id, call_id |-> call_id, event |-> event,
     from |-> from, transcript |-> transcript, CallSid |-> CallSid,
     CallStatus |-> CallStatus, Direction |-> Direction, From |-> From,
     RecordingUrl |-> RecordingUrl]

\* Mutant of SetEndTime: the time is written to start_time.
SetEndTimeAsStartTime(rec, t) == [rec EXCEPT !.start_time = t]

\* call_record.end_time = datetime.now()
SetEndTime(rec, t) == [rec EXCEPT !.end_time = t]

\* Mutant of AppendLine: an assignment where the code appends.
AppendLineOverwrites(transcript, line) == <<line>>

\* call_record.transcript += piece
AppendLine(transcript, line) == Append(transcript, line)

\* Mutant of VapiDefault: an event of no known type marks the call connected.
VapiDefaultMarksConnected(table, pk0, rec0) ==
    LET c == Commit(table, pk0, [rec0 EXCEPT !.status = "in-progress"])
    IN  IF c.raised THEN Outcome(table, NoBody, TRUE)
        ELSE Outcome(c.table, Body(None, None, None, "event_processed", None), FALSE)

\* handle_vapi_webhook, the else branch for an event of no known type:
\* db.commit() of the record as found or created, and the acknowledgement.
VapiDefault(table, pk0, rec0) ==
    LET c == Commit(table, pk0, rec0)
    IN  IF c.raised THEN Outcome(table, NoBody, TRUE)
        ELSE Outcome(c.table, Body(None, None, None, "event_processed", None), FALSE)

\* handle_vapi_webhook
HandleVapiWebhook(table, t, data, call_id, simulation_mode) ==
    LET event_type == DictGet(data.event, None)
        pk0 == QueryFirst(table, call_id)
        rec0 == IF pk0 = 0
                THEN CallRecord(call_id,
                                DictGet(data.from, "unknown"),
                                "inbound", t, "in-progress", <<>>)
                ELSE table[pk0]
        response == HandleInboundCall(data, simulation_mode)
    IN
    IF event_type = "call.started"
    THEN LET rec1 == [rec0 EXCEPT !.status = "in-progress"]
             c1 == Commit(table, pk0, rec1)
             rec2 == IF response.text # None
                     THEN [rec1 EXCEPT !.transcript = AppendLine(@, Line("AI", response.text))]
                     ELSE rec1
             c2 == Commit(c1.table, c1.pk, rec2)
         IN  IF c1.raised THEN Outcome(table, NoBody, TRUE)
             ELSE IF HandleInboundCallRaises(data, simulation_mode)
                  THEN \* the status is committed, the reply is an exception
                       Outcome(c1.table, NoBody, TRUE)
             ELSE IF response.text # None
                  THEN Outcome(c2.table, response, FALSE)
                  ELSE Outcome(c1.table, response, FALSE)
    ELSE IF event_type = "transcription"
    THEN LET transcript == PyStr(DictGet(data.transcript, ""))
             rec1 == [rec0 EXCEPT !.transcript = AppendLine(@, Line("Customer", transcript))]
             rec2 == IF response.intent # None
                     THEN [rec1 EXCEPT !.intent = response.intent]
                     ELSE rec1
             rec3 == IF response.text # None
                     THEN [rec2 EXCEPT !.transcript = AppendLine(@, Line("AI", response.text))]
                     ELSE rec2
             c == Commit(table, pk0, rec3)
         IN  IF HandleInboundCallRaises(data, simulation_mode)
             THEN Outcome(Abandon(table, pk0, rec1), NoBody, TRUE)
             ELSE IF c.raised THEN Outcome(table, NoBody, TRUE)
             ELSE Outcome(c.table, response, FALSE)
    ELSE IF event_type \in {"call.ended", "call.completed"}
    THEN LET rec1 == SetEndTime([rec0 EXCEPT !.status = "completed"], t)
             c == Commit(table, pk0, rec1)
         IN  IF c.raised THEN Outcome(table, NoBody, TRUE)
             ELSE Outcome(c.table, Body(None, None, None, "call_ended", None), FALSE)
    ELSE VapiDefault(table, pk0, rec0)

\* str.lower() on the provider status strings the payloads carry.
StrLower(s) ==
    CASE s = "In-Progress" -> "in-progress"
      [] s = "Completed" -> "completed"
      [] OTHER -> s

\* Mutant of StatusMapping: "ringing" mapped like a connected call.
StatusMappingRingingConnected(key, default) ==
    CASE key = "queued" -> "initiated"
      [] key = "ringing" -> "in-progress"
      [] key = "in-progress" -> "in-progress"
      [] key = "completed" -> "completed"
      [] key = "busy" -> "failed"
      [] key = "no-answer" -> "failed"
      [] key = "canceled" -> "failed"
      [] key = "failed" -> "failed"
      [] OTHER -> default

\* Mutant of StatusMapping: a status outside the table counts as in-progress.
StatusMappingUnknownConnected(key, default) ==
    CASE key = "queued" -> "initiated"
      [] key = "ringing" -> "initiated"
      [] key = "in-progress" -> "in-progress"
      [] key = "completed" -> "completed"
      [] key = "busy" -> "failed"
      [] key = "no-answer" -> "failed"
      [] key = "canceled" -> "failed"
      [] key = "failed" -> "failed"
      [] OTHER -> "in-progress"

\* status_mapping.get(key, default)
StatusMapping(key, default) ==
    CASE key = "queued" -> "initiated"
      [] key = "ringing" -> "initiated"
      [] key = "in-progress" -> "in-progress"
      [] key = "completed" -> "completed"
      [] key = "busy" -> "failed"
      [] key = "no-answer" -> "failed"
      [] key = "canceled" -> "failed"
      [] key = "failed" -> "failed"
      [] OTHER -> default

\* A Python string's truth value.
Truthy(s) == s # None /\ s # ""

\* handle_twilio_webhook
HandleTwilioWebhook(table, t, data, call_id) ==
    LET call_status == DictGet(data.CallStatus, None)
        pk0 == QueryFirst(table, call_id)
    IN
    IF pk0 = 0 /\ call_status = None
    THEN \* call_status.lower() on None: AttributeError before anything is added
         Outcome(table, NoBody, TRUE)
    ELSE
    LET rec0 == IF pk0 = 0
                THEN CallRecord(call_id,
                                DictGet(data.From, "unknown"),
                                IF DictGet(data.Direction, None) = "inbound"
                                THEN "inbound" ELSE "outbound",
                                t,
                                StatusMapping(StrLower(call_status), "in-progress"),
                                <<>>)
                ELSE IF Truthy(call_status)
                     THEN [table[pk0] EXCEPT
                              !.status = StatusMapping(StrLower(call_status), @)]
                     ELSE table[pk0]
        rec1 == IF data.RecordingUrl # None
                THEN [rec0 EXCEPT !.transcript =
                        AppendLine(@, Line("Customer", "[Recording received but not transcribed in demo]"))]
                ELSE rec0
        rec2 == IF Truthy(call_status)
                   /\ StrLower(call_status) \in
                        {"completed", "busy", "no-answer", "canceled", "failed"}
                THEN SetEndTime(rec1, t)
                ELSE rec1
        c == Commit(table, pk0, rec2)
    IN  IF c.raised THEN Outcome(table, NoBody, TRUE)
        ELSE IF data.CallStatus # None /\ DictGet(data.CallStatus, None) = "in-progress"
             THEN Outcome(c.table, Body(None, None, None, None, "twiml"), FALSE)
             ELSE Outcome(c.table, Body(None, None, None, "event_processed", None), FALSE)

\* Mutant of ResolveCallId: the body's call_id goes first.
ResolveCallIdBodyFirst(data) ==
    IF data.call_id # None
    THEN (IF data.call_id = JsonNull THEN None ELSE data.call_id)
    ELSE data.query_call_id

\* handle_call_webhook, lines 137-140: the query parameter, else the body's call_id.
ResolveCallId(data) ==
    IF ~Truthy(data.query_call_id) /\ data.call_id # None
    THEN (IF data.call_id = JsonNull THEN None ELSE data.call_id)
    ELSE data.query_call_id

\* What handle_call_webhook answers for the outcome of a dialect handler: an
\* exception becomes HTTP 500 (the except clause), anything else is the
\* handler's JSON body with HTTP 200.
Answer(call_id, out) ==
    [table |-> out.table,
     code |-> IF out.raised THEN 500 ELSE 200,
     body |-> out.body,
     call_id |-> call_id]

\* Mutant of HandleCallWebhook: the dialect is told by CallStatus.
HandleCallWebhookByStatus(table, t, data, simulation_mode) ==
    Answer(ResolveCallId(data),
           IF data.CallStatus # None
           THEN HandleTwilioWebhook(table, t, data, ResolveCallId(data))
           ELSE HandleVapiWebhook(table, t, data, ResolveCallId(data), simulation_mode))

\* handle_call_webhook after `await request.json()`: any exception becomes
\* HTTP 500, anything else is the handler's JSON body with HTTP 200.
HandleCallWebhook(table, t, data, simulation_mode) ==
    Answer(ResolveCallId(data),
           IF data.CallSid # None
           THEN HandleTwilioWebhook(table, t, data, ResolveCallId(data))
           ELSE HandleVapiWebhook(table, t, data, ResolveCallId(data), simulation_mode))

(***************************************************************************)
(* The outbound call initiator.                                            *)
(***************************************************************************)
\* The values uuid.uuid4() returns, in the order drawn: each one is new.
UuidPool == <<"u1", "u2">>

Uuid4(drawn) == UuidPool[drawn + 1]

\* Mutant of InitiateCallOutcome: the except branch does not mark the record.
InitiateCallOutcomeNoMark(table, t, call_id, phone_number, message, synth_ok) ==
    LET db_call == CallRecord(call_id, phone_number, "outbound", t, "initiated",
                              <<Line("AI", message)>>)
        c1 == Commit(table, 0, db_call)
    IN  IF c1.raised
        THEN [table |-> table, code |-> 500, scheduled |-> FALSE]
        ELSE IF synth_ok
        THEN [table |-> c1.table, code |-> 200, scheduled |-> TRUE]
        ELSE [table |-> c1.table, code |-> 500, scheduled |-> FALSE]

\* initiate_call: the record is committed first; a failing synthesis marks it
\* failed and raises HTTP 500 before add_task is reached.
InitiateCallOutcome(table, t, call_id, phone_number, message, synth_ok) ==
    LET db_call == CallRecord(call_id, phone_number, "outbound", t, "initiated",
                              <<Line("AI", message)>>)
        c1 == Commit(table, 0, db_call)
        c2 == Commit(c1.table, c1.pk, [db_call EXCEPT !.status = "failed"])
    IN  IF c1.raised
        THEN [table |-> table, code |-> 500, scheduled |-> FALSE]
        ELSE IF synth_ok
        THEN [table |-> c1.table, code |-> 200, scheduled |-> TRUE]
        ELSE [table |-> c2.table, code |-> 500, scheduled |-> FALSE]

\* CallHandler.make_outbound_call with _make_vapi_call / _make_twilio_call:
\* the response's "status", or "raised" for an exception that is not an
\* httpx.HTTPError (a timeout is an HTTPError).
MakeOutboundCall(cfg, provider) ==
    IF cfg.simulation_mode THEN "simulated_call_initiated"
    ELSE IF provider = "accepted" THEN "call_initiated"
    ELSE IF provider = "http_error" THEN "failed"
    ELSE "raised"

\* The call_id that make_outbound_call puts into the webhook URL it hands to
\* the provider: the uuid it draws itself; in simulation mode no URL is built.
CallbackCallId(cfg, drawn) ==
    IF cfg.simulation_mode THEN None ELSE Uuid4(drawn)

\* Mutant of GetDbIsIterator: get_db written as a generator (yield db).
GetDbIsGenerator == TRUE

\* Whether next() accepts what get_db() returns.  get_db returns the
\* Session from inside try/finally; it has no yield, so it is no generator
\* and next(get_db()) raises TypeError.
GetDbIsIterator == FALSE

\* handle_outbound_call after the dial resolved: the table it leaves.
HandleOutboundCallUpdate(table, call_id, dial_status) ==
    LET pk == QueryFirst(table, call_id) IN
    IF dial_status = "raised" \/ ~GetDbIsIterator \/ pk = 0
    THEN table
    ELSE [table EXCEPT ![pk].status =
            IF dial_status = "call_initiated" THEN "in-progress" ELSE "failed"]

(***************************************************************************)
(* Inputs.                                                                 *)
(***************************************************************************)
\* Webhook deliveries in one behaviour.
MaxDeliveries == 3

Configs ==
    { [simulation_mode |-> TRUE,  use_service |-> "vapi"],
      [simulation_mode |-> FALSE, use_service |-> "vapi"],
      [simulation_mode |-> FALSE, use_service |-> "twilio"] }

PhoneNumbers == {"+15551234567"}
Messages == {"Hi there"}
ProviderOutcomes == {"accepted", "http_error", "other_error"}

\* The call id of an inbound call, chosen by the provider.
InboundIds == {"c1"}

\* The uuids this service has generated so far: the outbound records' ids
\* and the ids the call handler puts into the provider's callback URLs.
GeneratedIds(drawn) == {UuidPool[i] : i \in 1..drawn}

\* Dialect A payloads: `transcript` accompanies the transcription event.
VapiPayloads(ids, events, froms, transcripts) ==
    { Payload(id, None, ev, from, IF ev = "transcription" THEN tr ELSE None,
              None, None, None, None, None) :
        id \in ids, ev \in events, from \in froms, tr \in transcripts }

\* Dialect B payloads: a status callback, with or without a recording.
TwilioPayloads(ids, statuses, directions, recordings) ==
    { Payload(id, None, None, None, None, "CA1", st, dir, None, rec) :
        id \in ids, st \in statuses, dir \in directions, rec \in recordings }

\* "call.ringing" stands for an event type the handler does not know, and
\* None for a payload without the key.  A transcription event carries a
\* text or, from a provider that heard nothing, a null transcript.
VapiEvents == {"call.started", "transcription", "call.ended", "call.completed",
               "call.ringing", None}

TwilioStatuses == {"ringing", "in-progress", "In-Progress", "completed", "busy", None}

Recordings == {None, "https://api.twilio.com/rec1"}

\* What a caller may say: nothing, one category's keyword, keywords of two
\* categories in either order, upper case, and a keyword inside a longer word.
Transcripts ==
    {"", "I need help with my account", "Thanks for your help", "Is my friend there",
     "What time is it", "Help me book a meeting", "Please book an appointment",
     "thank you, I appreciate it", "Can I speak to a human", "STOP",
     "cancel my appointment", "agent, thanks", "stop the agent",
     "I want to end the call"}

\* Payloads that mix the keys of the two dialects: CallSid absent, given or
\* null, with or without a Dialect A event and a Dialect B CallStatus.
MixedPayloads(ids) ==
    { Payload(id, None, ev, None, None, sid, st, None, None, None) :
        id \in ids, sid \in {None, "CA1", JsonNull},
        ev \in {"call.started", "call.ended", None},
        st \in {"in-progress", "completed", None} }

\* Where a delivery names its call: in the query parameter, in the body,
\* in both (with different ids), or nowhere.
CallIdPairs ==
    {<<"c1", None>>, <<None, "c2">>, <<"c1", "c2">>, <<"c2", "c1">>, <<None, None>>}

\* Payloads of both dialects that name their call in each of those ways.
CallIdPayloads ==
    { Payload(p[1], p[2], ev, None, None, None, None, None, None, None) :
        p \in CallIdPairs, ev \in {"call.started", "call.ended"} }
      \cup { Payload(p[1], p[2], None, None, None, "CA1", st, None, None, None) :
                p \in CallIdPairs, st \in {"ringing", "completed"} }

\* Dialect B status callbacks with every status of the table, a status
\* outside it ("answered"), a CallStatus of null, and no CallStatus at all.
AllTwilioStatuses ==
    {"queued", "ringing", "in-progress", "completed", "busy", "no-answer", "canceled",
     "failed", "answered", JsonNull, None}

StatusPayloads(ids) == TwilioPayloads(ids, AllTwilioStatuses, {None}, {None})

\* Transcripts classified in one behaviour.
MaxClassified == 2

\* Inbound traffic.
Payloads(ids) ==
    VapiPayloads(ids, VapiEvents, {"+15550100"},
                 {"I need help with my account", "What time is it", JsonNull})
      \cup TwilioPayloads(ids, TwilioStatuses, {None}, Recordings)

\* Traffic that makes handlers fail: a caller id that cannot be encoded, a
\* null transcript, a status callback without CallStatus.
FailurePayloads(ids) ==
    VapiPayloads(ids, {"call.started", "transcription", "call.ended"},
                 {"+15550100", LoneSurrogate}, {"I need help with my account", JsonNull})
      \cup TwilioPayloads(ids, {"ringing", "completed", None}, {None}, {None})

\* Traffic for the calls this service placed.
OutboundPayloads(ids) ==
    VapiPayloads(ids, {"call.started", "transcription", "call.ended"},
                 {"+15550100"}, {"I need help with my account"})
      \cup TwilioPayloads(ids, {"ringing", "completed", "busy"}, {None}, Recordings)

\* Deliveries that race for one call id.
ConcurrentPayloads(ids) ==
    VapiPayloads(ids, {"call.started", "transcription", "call.ended"},
                 {"+15550100"}, {"I need help with my account"})
      \cup TwilioPayloads(ids, {"ringing", "completed"}, {None}, Recordings)

(***************************************************************************)
(* The state machine.                                                      *)
(***************************************************************************)
\* A request that carries no JSON body.
NoPayload == Payload(None, None, None, None, None, None, None, None, None, None)

\* What the log keeps of a finished request or task: for a webhook delivery
\* its arrival number, dialect, event (or CallStatus), transcript,
\* RecordingUrl and the payload itself; for
\* initiate_call whether synthesis succeeded; for the background task the
\* dial's status and, as the payload's query parameter, the call_id of the
\* webhook URL given to the provider; and the HTTP status code and body
\* returned.
LogEntry(op, delivery, call_id, dialect, event, transcript, recording, code, body, data) ==
    [op |-> op, delivery |-> delivery, call_id |-> call_id, dialect |-> dialect,
     event |-> event, transcript |-> transcript, recording |-> recording,
     code |-> code, body |-> body, data |-> data]

Deliveries == Cardinality({i \in 1..Len(log) : log[i].op = "webhook"})
                + Cardinality(inflight)

Init ==
    /\ rows = <<>>
    /\ now = 1
    /\ config \in Configs
    /\ nextUuid = 0
    /\ tasks = {}
    /\ inflight = {}
    /\ log = <<>>

\* POST /initiate_call
InitiateCall(phone_number, message, synth_ok) ==
    /\ nextUuid + 2 <= Len(UuidPool)
    /\ LET call_id == Uuid4(nextUuid)
           out == InitiateCallOutcome(rows, now, call_id, phone_number, message, synth_ok)
       IN  /\ rows' = out.table
           /\ tasks' = IF out.scheduled
                       THEN tasks \cup {[call_id |-> call_id, phone_number |-> phone_number,
                                         message |-> message, callback_call_id |-> None]}
                       ELSE tasks
           /\ log' = Append(log, LogEntry("initiate_call", 0, call_id, None,
                                          IF synth_ok THEN "synthesis_ok"
                                                      ELSE "synthesis_failed",
                                          None, None, out.code, NoBody, NoPayload))
    /\ nextUuid' = nextUuid + 1
    /\ now' = now + 1
    /\ UNCHANGED <<config, inflight>>

\* The background task handle_outbound_call up to the provider request: with
\* simulation mode off make_outbound_call draws its call id, puts it in the
\* callback URL and waits at `await client.post(...)` for the provider.
Dial(task) ==
    /\ task \in tasks
    /\ ~config.simulation_mode
    /\ task.callback_call_id = None
    /\ tasks' = (tasks \ {task}) \cup
                    {[task EXCEPT !.callback_call_id = CallbackCallId(config, nextUuid)]}
    /\ nextUuid' = nextUuid + 1
    /\ UNCHANGED <<rows, now, config, inflight, log>>

\* The background task handle_outbound_call to its end: the whole of it in
\* simulation mode, where make_outbound_call returns without waiting, and
\* otherwise the part from the moment the provider request resolves.
HandleOutboundCall(task, provider) ==
    /\ task \in tasks
    /\ config.simulation_mode \/ task.callback_call_id # None
    /\ LET dial_status == MakeOutboundCall(config, provider)
       IN  /\ rows' = HandleOutboundCallUpdate(rows, task.call_id, dial_status)
           /\ log' = Append(log, LogEntry("handle_outbound_call", 0, task.call_id, None,
                                          dial_status, None, None, 0, NoBody,
                                          [NoPayload EXCEPT !.query_call_id =
                                              IF config.simulation_mode
                                              THEN CallbackCallId(config, nextUuid)
                                              ELSE task.callback_call_id]))
    /\ tasks' = tasks \ {task}
    /\ nextUuid' = IF config.simulation_mode THEN nextUuid + 1 ELSE nextUuid
    /\ UNCHANGED <<now, config, inflight>>

Dialect(data) == IF data.CallSid # None THEN "B" ELSE "A"

EventOf(data) == IF data.CallSid # None THEN data.CallStatus ELSE data.event

\* Delivery number n has been handled with outcome out: the table is as
\* the handler committed it and the response is logged.
Deliver(n, data, out) ==
    /\ rows' = out.table
    /\ log' = Append(log, LogEntry("webhook", n, out.call_id, Dialect(data),
                                   EventOf(data), data.transcript, data.RecordingUrl,
                                   out.code, out.body, data))
    /\ now' = now + 1
    /\ UNCHANGED <<config, nextUuid, tasks>>

\* The effect of delivery number n once the event loop resumes its handler.
Process(n, data) ==
    Deliver(n, data, HandleCallWebhook(rows, now, data, config.simulation_mode))

\* POST /call_webhook up to `await request.json()`: the delivery waits for
\* the event loop to resume it.
Receive(data) ==
    /\ Deliveries < MaxDeliveries
    /\ inflight' = inflight \cup {[n |-> Deliveries + 1, data |-> data]}
    /\ UNCHANGED <<rows, now, config, nextUuid, tasks, log>>

\* The event loop resumes one waiting delivery; its handler runs to the end.
Resume(d) ==
    /\ d \in inflight
    /\ Process(d.n, d.data)
    /\ inflight' = inflight \ {d}

\* One call of CallHandler._detect_intent, its argument and result logged.
Classify(transcript) ==
    /\ Len(log) < MaxClassified
    /\ log' = Append(log, LogEntry("detect_intent", 0, None, None, None, transcript, None, 0,
                                   Body(None, None, DetectIntent(transcript), None, None),
                                   NoPayload))
    /\ UNCHANGED <<rows, now, config, nextUuid, tasks, inflight>>

\* The reconciler under inbound traffic.
Next ==
    \/ \E data \in Payloads(InboundIds) : Receive(data)
    \/ \E d \in inflight : Resume(d)

Spec == Init /\ [][Next]_vars

\* The initiator, its background task, and deliveries that name the call
\* ids this service generated.
NextOutbound ==
    \/ \E ph \in PhoneNumbers, m \in Messages, ok \in BOOLEAN : InitiateCall(ph, m, ok)
    \/ \E task \in tasks : Dial(task)
    \/ \E task \in tasks, pr \in ProviderOutcomes : HandleOutboundCall(task, pr)
    \/ \E data \in OutboundPayloads(GeneratedIds(nextUuid)) : Receive(data)
    \/ \E d \in inflight : Resume(d)

SpecOutbound == Init /\ [][NextOutbound]_vars

\* Deliveries for one call id that are in flight at the same time.
NextConcurrent ==
    \/ \E data \in ConcurrentPayloads(InboundIds) : Receive(data)
    \/ \E d \in inflight : Resume(d)

SpecConcurrent == Init /\ [][NextConcurrent]_vars

\* The reconciler under payloads of mixed shape.
NextDialect ==
    \/ \E data \in MixedPayloads(InboundIds) : Receive(data)
    \/ \E d \in inflight : Resume(d)

SpecDialect == Init /\ [][NextDialect]_vars

\* The reconciler under payloads that name their call in different places.
NextCallId ==
    \/ \E data \in CallIdPayloads : Receive(data)
    \/ \E d \in inflight : Resume(d)

SpecCallId == Init /\ [][NextCallId]_vars

\* The reconciler under Dialect B status callbacks.
NextStatus ==
    \/ \E data \in StatusPayloads(InboundIds) : Receive(data)
    \/ \E d \in inflight : Resume(d)

SpecStatus == Init /\ [][NextStatus]_vars

\* The reconciler under payloads that make its handlers fail.
NextFailure ==
    \/ \E data \in FailurePayloads(InboundIds) : Receive(data)
    \/ \E d \in inflight : Resume(d)

SpecFailure == Init /\ [][NextFailure]_vars

\* The intent classifier on its own.
NextIntent ==
    \E transcript \in Transcripts : Classify(transcript)

SpecIntent == Init /\ [][NextIntent]_vars

(***************************************************************************)
(* Vocabulary of the properties.                                           *)
(***************************************************************************)
Terminal == {"completed", "failed"}

\* The primary keys of the rows stored under call_id.
RowsOf(call_id) == {i \in 1..Len(rows) : rows[i].call_id = call_id}

\* The log positions of the deliveries handled for call_id.
WebhooksOf(call_id) ==
    {k \in 1..Len(log) : log[k].op = "webhook" /\ log[k].call_id = call_id}

LastLog == log[Len(log)]

\* The transcript lines one delivery appends.
LinesOf(entry) ==
    IF entry.dialect = "A"
    THEN (IF entry.event = "call.started" THEN 1
          ELSE IF entry.event = "transcription" THEN 2 ELSE 0)
    ELSE (IF entry.recording # None THEN 1 ELSE 0)

RECURSIVE SumLines(_)
SumLines(ks) ==
    IF ks = {} THEN 0
    ELSE LET k == CHOOSE x \in ks : TRUE IN LinesOf(log[k]) + SumLines(ks \ {k})

(***************************************************************************)
(* C1.  At-most-one creation: when deliveries of either dialect for the    *)
(* same unseen call_id are in flight together, then in whatever order the  *)
(* event loop resumes them exactly one record with that call_id is stored, *)
(* no delivery fails, and that record's transcript holds the lines of      *)
(* every one of the deliveries.                                            *)
(***************************************************************************)
C1_AtMostOneCreation ==
    \A id \in InboundIds :
        WebhooksOf(id) # {} =>
            /\ Cardinality(RowsOf(id)) = 1
            /\ \A k \in WebhooksOf(id) : log[k].code = 200
            /\ \A i \in RowsOf(id) :
                 Len(rows[i].transcript) = SumLines(WebhooksOf(id))

\* Two deliveries for the unseen "c1", one of each dialect, were in flight
\* together (the later arrival was resumed first) and both have been handled.
C1_Witness ==
    /\ Len(log) >= 2
    /\ log[1].call_id = "c1" /\ log[2].call_id = "c1"
    /\ log[1].delivery = 2 /\ log[2].delivery = 1
    /\ log[1].dialect = "B" /\ log[2].dialect = "A"
    /\ log[2].event = "call.started"
    /\ Cardinality(RowsOf("c1")) = 1

(***************************************************************************)
(* C2.  Terminal statuses are absorbing: no step changes the status of a   *)
(* record that is completed or failed, or overwrites its end_time.         *)
(***************************************************************************)
C2_TerminalAbsorbing ==
    [][\A i \in 1..Len(rows) :
          rows[i].status \in Terminal =>
              /\ rows'[i].status = rows[i].status
              /\ rows[i].end_time # NullTime => rows'[i].end_time = rows[i].end_time]_vars

(***************************************************************************)
(* C3.  The late initiator update does not resurrect a call: a record      *)
(* that a webhook has made completed or failed keeps that status across    *)
(* the step in which the background task handle_outbound_call finishes.    *)
(***************************************************************************)
C3_NoResurrection ==
    [][(Len(log') = Len(log) + 1 /\ log'[Len(log')].op = "handle_outbound_call") =>
          \A i \in 1..Len(rows) :
              rows[i].status \in Terminal => rows'[i].status = rows[i].status]_vars

\* The dial was accepted after a webhook had completed the outbound record.
C3_Witness ==
    /\ Len(log) >= 3
    /\ LastLog.op = "handle_outbound_call"
    /\ LastLog.event = "call_initiated"
    /\ \E k \in WebhooksOf(LastLog.call_id) : log[k].event \in {"call.ended", "completed"}
    /\ \E i \in RowsOf(LastLog.call_id) :
          rows[i].direction = "outbound" /\ rows[i].status = "completed"

(***************************************************************************)
(* C4.  Outcome of the background dial: once handle_outbound_call has      *)
(* finished for a record that no webhook touched, the record is            *)
(* in-progress if the dial was accepted and failed otherwise.              *)
(***************************************************************************)
C4_DialOutcome ==
    \A k \in 1..Len(log) :
        (log[k].op = "handle_outbound_call" /\ WebhooksOf(log[k].call_id) = {}) =>
            \A i \in RowsOf(log[k].call_id) :
                rows[i].status =
                    IF log[k].event \in {"call_initiated", "simulated_call_initiated"}
                    THEN "in-progress" ELSE "failed"

(***************************************************************************)
(* C5.  A synthesis failure leaves a visible failed record: right after    *)
(* an initiate_call whose synthesis raised, the caller has an error, the   *)
(* record with the generated call_id is outbound and failed, and at no     *)
(* time is a background dial scheduled or run for it.                      *)
(***************************************************************************)
C5_SynthesisFailure ==
    \A k \in 1..Len(log) :
        (log[k].op = "initiate_call" /\ log[k].event = "synthesis_failed") =>
            /\ log[k].code = 500
            /\ \A task \in tasks : task.call_id # log[k].call_id
            /\ \A j \in 1..Len(log) :
                 log[j].op = "handle_outbound_call" => log[j].call_id # log[k].call_id
            /\ k = Len(log) =>
                 /\ Cardinality(RowsOf(log[k].call_id)) = 1
                 /\ \A i \in RowsOf(log[k].call_id) :
                      rows[i].direction = "outbound" /\ rows[i].status = "failed"

\* An initiate_call whose synthesis raised has just returned.
C5_Witness ==
    /\ Len(log) >= 1
    /\ LastLog.op = "initiate_call"
    /\ LastLog.event = "synthesis_failed"
    /\ RowsOf(LastLog.call_id) # {}

(***************************************************************************)
(* C6.  Dialect A happy path: for the unseen "c1", call.started, then a    *)
(* transcription of "I need help with my account", then call.ended leave   *)
(* one record that is completed, has intent support and an end_time, and   *)
(* whose transcript holds, in this order, an AI opening line, the          *)
(* Customer line with the transcript and an AI line with the support       *)
(* response.                                                               *)
(***************************************************************************)
HappyPathA ==
    /\ Len(log) = 3
    /\ \A k \in 1..3 : log[k].op = "webhook" /\ log[k].dialect = "A" /\ log[k].call_id = "c1"
    /\ log[1].event = "call.started"
    /\ log[2].event = "transcription"
    /\ log[2].transcript = "I need help with my account"
    /\ log[3].event = "call.ended"

HappyPathARecord ==
    /\ Cardinality(RowsOf("c1")) = 1
    /\ \A i \in RowsOf("c1") :
          /\ rows[i].status = "completed"
          /\ rows[i].intent = "support"
          /\ rows[i].end_time # NullTime
          /\ \E a, b, c \in 1..Len(rows[i].transcript) :
                /\ a < b /\ b < c
                /\ rows[i].transcript[a].speaker = "AI"
                /\ rows[i].transcript[b] =
                     [speaker |-> "Customer", text |-> "I need help with my account"]
                /\ rows[i].transcript[c] =
                     [speaker |-> "AI",
                      text |-> "I understand you're having an issue. Could you please describe the problem in more detail so I can assist you better?"]

\* The claim as stated, for every configuration of the call handler.
C6_HappyPathAnyMode == HappyPathA => HappyPathARecord

\* C6 as amended: the same, provided the call handler's simulation mode is off.
C6_HappyPathA == (HappyPathA /\ ~config.simulation_mode) => HappyPathARecord

C6_Witness == HappyPathA /\ ~config.simulation_mode /\ HappyPathARecord

(***************************************************************************)
(* C7.  Dialect B happy path: for the unseen "c1", a ringing callback      *)
(* creates one record that is initiated and has no end_time; a completed   *)
(* callback after it makes that record completed and sets its end_time,    *)
(* to the time of that second event.                                       *)
(***************************************************************************)
RingingFirst ==
    /\ Len(log) >= 1
    /\ log[1].op = "webhook" /\ log[1].dialect = "B" /\ log[1].call_id = "c1"
    /\ log[1].event = "ringing"

ThenCompleted ==
    /\ RingingFirst
    /\ Len(log) = 2
    /\ log[2].op = "webhook" /\ log[2].dialect = "B" /\ log[2].call_id = "c1"
    /\ log[2].event = "completed"

C7_HappyPathB ==
    /\ (RingingFirst /\ Len(log) = 1) =>
          /\ Cardinality(RowsOf("c1")) = 1
          /\ \A i \in RowsOf("c1") :
                rows[i].status = "initiated" /\ rows[i].end_time = NullTime
    /\ ThenCompleted =>
          /\ Cardinality(RowsOf("c1")) = 1
          /\ \A i \in RowsOf("c1") :
                /\ rows[i].status = "completed"
                /\ rows[i].end_time = now - 1
                /\ rows[i].end_time > rows[i].start_time

C7_Witness == ThenCompleted /\ \E i \in RowsOf("c1") : rows[i].status = "completed"

(***************************************************************************)
(* C8.  end_time is set only on a record whose status is completed or      *)
(* failed.                                                                 *)
(***************************************************************************)
C8_EndTimeOnlyTerminal ==
    \A i \in 1..Len(rows) : rows[i].end_time # NullTime => rows[i].status \in Terminal

(***************************************************************************)
(* C9.  Status never moves backward along initiated -> in-progress ->      *)
(* {completed, failed}; in particular no step takes an in-progress record  *)
(* back to initiated.                                                      *)
(***************************************************************************)
Rank(status) ==
    IF status = "initiated" THEN 0 ELSE IF status = "in-progress" THEN 1 ELSE 2

C9_StatusMonotonic ==
    [][\A i \in 1..Len(rows) : Rank(rows'[i].status) >= Rank(rows[i].status)]_vars

(***************************************************************************)
(* C10.  The transcript is append-only: across every step (a webhook of    *)
(* either dialect, initiate_call, the background task) each stored         *)
(* record's transcript keeps its former lines as a prefix.                 *)
(***************************************************************************)
IsPrefix(s, t) ==
    /\ Len(s) <= Len(t)
    /\ \A j \in 1..Len(s) : s[j] = t[j]

C10_TranscriptAppendOnly ==
    [][\A i \in 1..Len(rows) : IsPrefix(rows[i].transcript, rows'[i].transcript)]_vars

\* An outbound record's opening line was followed by the lines of a Dialect A
\* turn and of a recording callback, and the background task has run.
C10_Witness ==
    /\ \E k \in 1..Len(log) : log[k].op = "handle_outbound_call"
    /\ \E i \in 1..Len(rows) :
          /\ rows[i].direction = "outbound"
          /\ Len(rows[i].transcript) >= 4
          /\ rows[i].transcript[1] = [speaker |-> "AI", text |-> "Hi there"]
          /\ \E j \in 2..Len(rows[i].transcript) :
                rows[i].transcript[j].text = "[Recording received but not transcribed in demo]"

(***************************************************************************)
(* C11.  No transcript line is lost under concurrency: when deliveries     *)
(* for the same call_id are in flight together and each appends lines,     *)
(* then in whatever order the event loop resumes them the stored           *)
(* transcript is the lines of the handled deliveries, each delivery's      *)
(* lines contiguous and in that delivery's order (the customer's line      *)
(* before the reply returned to the provider), one delivery after another  *)
(* in the order they were resumed.                                         *)
(***************************************************************************)
\* The lines one handled delivery contributes, read off its payload and the
\* response it was answered with.
EntryLines(entry) ==
    IF entry.op # "webhook" \/ entry.code # 200 THEN <<>>
    ELSE IF entry.dialect = "A"
    THEN (IF entry.event = "call.started"
          THEN <<Line("AI", entry.body.text)>>
          ELSE IF entry.event = "transcription"
          THEN <<Line("Customer", IF entry.transcript = None THEN ""
                                  ELSE PyStr(entry.transcript)),
                 Line("AI", entry.body.text)>>
          ELSE <<>>)
    ELSE (IF entry.recording # None
          THEN <<Line("Customer", "[Recording received but not transcribed in demo]")>>
          ELSE <<>>)

\* The lines of the first n log entries that were handled for call_id.
RECURSIVE LinesUpTo(_, _)
LinesUpTo(call_id, n) ==
    IF n = 0 THEN <<>>
    ELSE LinesUpTo(call_id, n - 1)
           \o (IF log[n].call_id = call_id THEN EntryLines(log[n]) ELSE <<>>)

C11_NoLostLines ==
    \A id \in InboundIds :
        \A i \in RowsOf(id) : rows[i].transcript = LinesUpTo(id, Len(log))

\* The record of "c1" existed when a Dialect A turn and a recording callback
\* were in flight together; the later arrival was resumed first, and the
\* transcript holds the three lines of the two in that order.
C11_Witness ==
    /\ Len(log) = 3
    /\ log[1].delivery = 1 /\ log[1].event = "ringing" /\ log[1].recording = None
    /\ log[2].delivery = 3 /\ log[2].dialect = "A" /\ log[2].event = "transcription"
    /\ log[3].delivery = 2 /\ log[3].dialect = "B" /\ log[3].recording # None
    /\ \E i \in RowsOf("c1") :
          /\ Len(rows[i].transcript) = 3
          /\ rows[i].transcript[1].speaker = "Customer"
          /\ rows[i].transcript[2].speaker = "AI"
          /\ rows[i].transcript[3].text = "[Recording received but not transcribed in demo]"

(***************************************************************************)
(* C12.  handle_call_webhook never fails on an unexpected payload: every   *)
(* delivery, a Dialect B one without CallStatus for an unseen call_id and  *)
(* a Dialect A one with an unknown or missing event included, is answered  *)
(* with a normal response, the generic acknowledgement when the event is   *)
(* not recognised.                                                         *)
(***************************************************************************)
C12_NeverFails ==
    \A k \in 1..Len(log) :
        log[k].op = "webhook" =>
            /\ log[k].code = 200
            /\ (log[k].dialect = "A" /\ log[k].event \in {"call.ringing", None})
                  => log[k].body.status = "event_processed"
            /\ (log[k].dialect = "B" /\ log[k].event = None)
                  => log[k].body.status = "event_processed"

(***************************************************************************)
(* C13.  No partial write on a webhook failure: whenever the handling of   *)
(* a delivery raises and handle_call_webhook answers with a failure, the   *)
(* table is exactly as it was before the delivery: an existing record      *)
(* keeps every field, and for an unseen call_id no record is stored.       *)
(***************************************************************************)
C13_NoPartialWrite ==
    [][(/\ Len(log') = Len(log) + 1
        /\ log'[Len(log')].op = "webhook"
        /\ log'[Len(log')].code = 500) => rows' = rows]_vars

(***************************************************************************)
(* C14.  A provider failure during the background dial ends in a failed    *)
(* record: once handle_outbound_call has finished after the provider       *)
(* refused the dial or the dial raised, the task has not crashed and the   *)
(* record, which no webhook touched, is failed and not left initiated.     *)
(***************************************************************************)
C14_ProviderFailureFails ==
    \A k \in 1..Len(log) :
        (/\ log[k].op = "handle_outbound_call"
         /\ log[k].event \in {"failed", "raised"}
         /\ WebhooksOf(log[k].call_id) = {}) =>
            \A i \in RowsOf(log[k].call_id) : rows[i].status = "failed"

(***************************************************************************)
(* C15.  _detect_intent returns the first category, in the order support,  *)
(* schedule, gratitude, agent_request, terminate, one of whose keywords    *)
(* occurs in the transcript as a case-insensitive substring, wherever in   *)
(* the transcript the keywords stand, and general when none occurs, the    *)
(* empty transcript included.                                              *)
(***************************************************************************)
CategoryOrder == <<"support", "schedule", "gratitude", "agent_request", "terminate">>

KeywordsOf(category) ==
    CASE category = "support" -> {"help", "support", "problem", "issue"}
      [] category = "schedule" -> {"schedule", "appointment", "book", "meeting"}
      [] category = "gratitude" -> {"thank", "thanks", "appreciate"}
      [] category = "agent_request" -> {"speak", "human", "agent", "representative"}
      [] category = "terminate" -> {"cancel", "stop", "end"}

\* The keyword stands somewhere in the text, letter case aside.
Occurs(keyword, text) ==
    LET t == Lower(Chars(text))
        w == Lower(Chars(keyword))
    IN  \E a \in 1..Len(t), b \in 1..Len(t) : SubSeq(t, a, b) = w

\* The positions in CategoryOrder of the categories with a keyword in text.
Hits(text) ==
    {c \in 1..Len(CategoryOrder) : \E w \in KeywordsOf(CategoryOrder[c]) : Occurs(w, text)}

\* The first category in CategoryOrder with a keyword in text, else general.
PriorityIntent(text) ==
    IF Hits(text) = {} THEN "general"
    ELSE CategoryOrder[CHOOSE c \in Hits(text) : \A d \in Hits(text) : c <= d]

C15_IntentPriority ==
    \A k \in 1..Len(log) :
        log[k].op = "detect_intent" =>
            LET text == log[k].transcript
                got == log[k].body.intent
            IN  /\ got = PriorityIntent(text)
                /\ text = "" => got = "general"
                /\ text = "Thanks for your help" => got = "support"
                /\ text = "cancel my appointment" => got = "schedule"
                /\ text = "agent, thanks" => got = "gratitude"
                /\ text = "stop the agent" => got = "agent_request"
                /\ text = "STOP" => got = "terminate"
                /\ text = "Is my friend there" => got = "terminate"
                /\ text = "What time is it" => got = "general"

\* A transcript whose gratitude keyword stands before its support keyword
\* was classified as support, and the empty transcript as general.
C15_Witness ==
    /\ Len(log) = 2
    /\ log[1].op = "detect_intent" /\ log[1].transcript = "Thanks for your help"
    /\ log[1].body.intent = "support"
    /\ log[2].op = "detect_intent" /\ log[2].transcript = ""
    /\ log[2].body.intent = "general"

(***************************************************************************)
(* C16.  Identity fields are frozen: no step (a webhook of either dialect, *)
(* initiate_call, the background task's update) changes the call_id,       *)
(* direction, phone_number or start_time of a record already stored, or    *)
(* removes a record.                                                       *)
(***************************************************************************)
C16_IdentityFrozen ==
    [][/\ Len(rows') >= Len(rows)
       /\ \A i \in 1..Len(rows) :
            /\ rows'[i].call_id = rows[i].call_id
            /\ rows'[i].direction = rows[i].direction
            /\ rows'[i].phone_number = rows[i].phone_number
            /\ rows'[i].start_time = rows[i].start_time]_vars

\* An outbound record went through a Dialect A event and a terminal
\* Dialect B callback, which stamped its end_time, and kept the identity
\* initiate_call gave it.
C16_Witness ==
    \E i \in 1..Len(rows) :
        /\ rows[i].direction = "outbound"
        /\ rows[i].phone_number = "+15551234567"
        /\ rows[i].start_time < rows[i].end_time
        /\ \E k \in WebhooksOf(rows[i].call_id) : log[k].dialect = "A"
        /\ \E k \in WebhooksOf(rows[i].call_id) :
              log[k].dialect = "B" /\ log[k].event \in {"completed", "busy"}

(***************************************************************************)
(* C17.  Effect of a Dialect A transcription event carrying a transcript   *)
(* text: the record (created first when the call_id is unseen) gets        *)
(* exactly two new lines, the Customer line with the transcript text and   *)
(* then an AI line; its intent becomes the classification of the           *)
(* transcript; and the response returned has the text of that AI line and  *)
(* the intent stored.  The claim says so for every configuration of the    *)
(* call handler; it holds with simulation mode off.                        *)
(***************************************************************************)
\* The step handles a transcription event whose transcript is a text.
TranscriptionStep ==
    /\ Len(log') = Len(log) + 1
    /\ log'[Len(log')].op = "webhook"
    /\ log'[Len(log')].dialect = "A"
    /\ log'[Len(log')].event = "transcription"
    /\ log'[Len(log')].transcript \notin {None, JsonNull}

TranscriptionEffect ==
    LET e == log'[Len(log')]
        before == IF RowsOf(e.call_id) = {} THEN <<>>
                  ELSE rows[CHOOSE i \in RowsOf(e.call_id) : TRUE].transcript
    IN  /\ e.code = 200
        /\ e.body.text # None
        /\ \E i \in 1..Len(rows') :
              /\ rows'[i].call_id = e.call_id
              /\ rows'[i].transcript =
                    before \o <<Line("Customer", e.transcript), Line("AI", e.body.text)>>
              /\ rows'[i].intent = PriorityIntent(e.transcript)
              /\ e.body.intent = rows'[i].intent

\* The claim as stated, for every configuration.
C17_TranscriptionAnyMode ==
    [][TranscriptionStep => TranscriptionEffect]_vars

C17_Transcription ==
    [][(TranscriptionStep /\ ~config.simulation_mode) => TranscriptionEffect]_vars

\* With simulation mode off, a transcription without a keyword was handled
\* for a record that already held the opening line: the record has the
\* three lines and the intent general.
C17_Witness ==
    /\ ~config.simulation_mode
    /\ Len(log) = 2
    /\ log[1].event = "call.started"
    /\ log[2].event = "transcription" /\ log[2].transcript = "What time is it"
    /\ log[2].code = 200 /\ log[2].body.intent = "general"
    /\ \E i \in RowsOf("c1") :
          Len(rows[i].transcript) = 3 /\ rows[i].intent = "general"

(***************************************************************************)
(* C18.  Dialect detection is purely structural: a payload is handled as   *)
(* a Dialect B status callback exactly when it contains the key CallSid,   *)
(* whatever its other keys are.  With CallSid the record's status follows  *)
(* CallStatus and the answer is TwiML (CallStatus in-progress) or the      *)
(* acknowledgement, an `event` key being ignored; without CallSid the      *)
(* status and the answer follow `event`, a CallStatus key being ignored.   *)
(***************************************************************************)
\* The status of call_id's record in table, None without a record.
StatusIn(table, call_id) ==
    LET found == {i \in 1..Len(table) : table[i].call_id = call_id} IN
    IF found = {} THEN None ELSE table[CHOOSE i \in found : TRUE].status

\* What handling d as a Dialect B status callback shows.
AsDialectB(e, before, after) ==
    IF before = None /\ e.data.CallStatus = None
    THEN e.code = 500 /\ after = None
    ELSE /\ e.code = 200
         /\ e.body.action = None
         /\ after = (IF e.data.CallStatus = None THEN before ELSE e.data.CallStatus)
         /\ IF e.data.CallStatus = "in-progress"
            THEN e.body.content = "twiml"
            ELSE e.body.status = "event_processed"

\* What handling d as a Dialect A event shows.
AsDialectA(e, before, after) ==
    /\ e.code = 200
    /\ e.body.content = None
    /\ CASE e.data.event = "call.started" ->
                after = "in-progress" /\ e.body.action = "talk"
         [] e.data.event = "call.ended" ->
                after = "completed" /\ e.body.status = "call_ended"
         [] OTHER ->
                /\ after = (IF before = None THEN "in-progress" ELSE before)
                /\ e.body.status = "event_processed"

C18_DialectByCallSid ==
    [][(Len(log') = Len(log) + 1 /\ log'[Len(log')].op = "webhook") =>
          LET e == log'[Len(log')]
              before == StatusIn(rows, e.call_id)
              after == StatusIn(rows', e.call_id)
          IN  IF e.data.CallSid # None
              THEN AsDialectB(e, before, after)
              ELSE AsDialectA(e, before, after)]_vars

\* A payload with CallSid and the event call.ended left the in-progress
\* record in-progress, and a payload without CallSid whose CallStatus says
\* completed was answered as the Dialect A event call.started.
C18_Witness ==
    /\ Len(log) = 3
    /\ log[1].data.CallSid = None /\ log[1].data.event = "call.started"
    /\ log[1].data.CallStatus = "completed" /\ log[1].body.action = "talk"
    /\ log[2].data.CallSid = "CA1" /\ log[2].data.event = "call.ended"
    /\ log[2].data.CallStatus = None /\ log[2].body.status = "event_processed"
    /\ log[3].data.CallSid = JsonNull /\ log[3].data.event = "call.started"
    /\ log[3].data.CallStatus = "in-progress" /\ log[3].body.content = "twiml"
    /\ \E i \in RowsOf("c1") : rows[i].status = "in-progress"

(***************************************************************************)
(* C19.  call_id resolution: the record a delivery looks up or creates is  *)
(* keyed by the call_id query parameter when one is given, even if the     *)
(* body carries a different call_id, and by the body's call_id only when   *)
(* the query parameter is absent: the delivery leaves a record under that  *)
(* key and touches or creates no record under another key.                 *)
(***************************************************************************)
\* The key the claim gives a delivery with payload d.
ClaimedKey(d) == IF d.query_call_id # None THEN d.query_call_id ELSE d.call_id

C19_QueryParameterFirst ==
    [][(Len(log') = Len(log) + 1 /\ log'[Len(log')].op = "webhook") =>
          LET e == log'[Len(log')]
              key == ClaimedKey(e.data)
          IN  /\ e.code = 200 => \E i \in 1..Len(rows') : rows'[i].call_id = key
              /\ \A i \in 1..Len(rows') :
                    rows'[i].call_id # key => (i <= Len(rows) /\ rows'[i] = rows[i])]_vars

\* A delivery with query parameter c1 and body call_id c2 created the record
\* of c1, and then a delivery with only the body's call_id c2 created the
\* record of c2 and completed it, the record of c1 staying as it was.
C19_Witness ==
    /\ Len(log) = 2
    /\ log[1].data.query_call_id = "c1" /\ log[1].data.call_id = "c2"
    /\ log[1].data.event = "call.started"
    /\ log[2].data.query_call_id = None /\ log[2].data.call_id = "c2"
    /\ log[2].data.CallStatus = "completed"
    /\ Len(rows) = 2
    /\ rows[1].call_id = "c1" /\ rows[1].status = "in-progress"
    /\ rows[2].call_id = "c2" /\ rows[2].status = "completed"

(***************************************************************************)
(* C20.  Default record on first event: the record a delivery of either    *)
(* dialect creates for an unseen call_id has direction inbound unless the  *)
(* payload states another direction, the status the event's own            *)
(* transition makes of in-progress, no transcript lines but the event's    *)
(* own, and the phone number of the payload's from field, or "unknown"     *)
(* when the payload has none.                                              *)
(***************************************************************************)
\* The status a first event leaves: its transition applied to in-progress.
FirstStatus(e) ==
    IF e.dialect = "A"
    THEN (IF e.event \in {"call.ended", "call.completed"} THEN "completed" ELSE "in-progress")
    ELSE CASE e.event = "ringing" -> "initiated"
           [] e.event = "completed" -> "completed"
           [] e.event = "busy" -> "failed"
           [] OTHER -> "in-progress"

C20_DefaultRecord ==
    [][(/\ Len(log') = Len(log) + 1
        /\ log'[Len(log')].op = "webhook"
        /\ Len(rows') = Len(rows) + 1) =>
          LET e == log'[Len(log')]
              created == rows'[Len(rows')]
              from == IF e.dialect = "A" THEN e.data.from ELSE e.data.From
          IN  /\ created.call_id = e.call_id
              /\ e.data.Direction \in {None, "inbound"} => created.direction = "inbound"
              /\ created.status = FirstStatus(e)
              /\ created.transcript = EntryLines(e)
              /\ created.phone_number = (IF from = None THEN "unknown" ELSE from)]_vars

(***************************************************************************)
(* C21.  Dialect B status mapping: for an existing record, a status        *)
(* callback sets the status by the fixed table (queued and ringing to      *)
(* initiated, in-progress to in-progress, completed to completed, busy,    *)
(* no-answer, canceled and failed to failed), and a callback whose status  *)
(* is absent or not in the table leaves the record's status and end_time   *)
(* as they were.                                                           *)
(***************************************************************************)
\* The table of the claim; None for a status it does not list.
TableStatus(call_status) ==
    CASE call_status \in {"queued", "ringing"} -> "initiated"
      [] call_status = "in-progress" -> "in-progress"
      [] call_status = "completed" -> "completed"
      [] call_status \in {"busy", "no-answer", "canceled", "failed"} -> "failed"
      [] OTHER -> None

C21_StatusTable ==
    [][(/\ Len(log') = Len(log) + 1
        /\ log'[Len(log')].op = "webhook"
        /\ log'[Len(log')].dialect = "B"
        /\ RowsOf(log'[Len(log')].call_id) # {}) =>
          LET e == log'[Len(log')]
              mapped == TableStatus(e.data.CallStatus)
          IN  /\ e.code = 200
              /\ \A i \in RowsOf(e.call_id) :
                    IF mapped = None
                    THEN /\ rows'[i].status = rows[i].status
                         /\ rows'[i].end_time = rows[i].end_time
                    ELSE rows'[i].status = mapped]_vars

\* A completed record, its end_time stamped, received a callback with a
\* status outside the table and then one without CallStatus, and is still
\* completed with the same end_time.
C21_Witness ==
    /\ Len(log) = 3
    /\ log[1].data.CallStatus = "completed"
    /\ log[2].data.CallStatus = "answered" /\ log[2].code = 200
    /\ log[3].data.CallStatus = None /\ log[3].code = 200
    /\ \E i \in RowsOf("c1") : rows[i].status = "completed" /\ rows[i].end_time = 1

(***************************************************************************)
(* C22.  Unrecognised Dialect A events do not mutate: for a Dialect A      *)
(* event whose type is none of call.started, transcription, call.ended     *)
(* and call.completed, a missing type included, an existing record keeps   *)
(* its status, transcript, intent and end_time, a missing record is        *)
(* created with the default values only, and the generic acknowledgement   *)
(* is returned.                                                            *)
(***************************************************************************)
KnownVapiEvents == {"call.started", "transcription", "call.ended", "call.completed"}

C22_UnknownEventNoMutation ==
    [][(/\ Len(log') = Len(log) + 1
        /\ log'[Len(log')].op = "webhook"
        /\ log'[Len(log')].dialect = "A"
        /\ log'[Len(log')].data.event \notin KnownVapiEvents) =>
          LET e == log'[Len(log')] IN
          /\ e.code = 200
          /\ e.body = Body(None, None, None, "event_processed", None)
          /\ \A i \in 1..Len(rows) :
                /\ rows'[i].status = rows[i].status
                /\ rows'[i].transcript = rows[i].transcript
                /\ rows'[i].intent = rows[i].intent
                /\ rows'[i].end_time = rows[i].end_time
          /\ IF RowsOf(e.call_id) # {}
             THEN Len(rows') = Len(rows)
             ELSE /\ Len(rows') = Len(rows) + 1
                  /\ rows'[Len(rows')] =
                        CallRecord(e.call_id,
                                   IF e.data.from = None THEN "unknown" ELSE e.data.from,
                                   "inbound", now, "in-progress", <<>>)]_vars

\* With simulation mode off, a record that a transcription and call.ended
\* had completed received an event of an unknown type, was answered with
\* the acknowledgement, and is as call.ended left it.
C22_Witness ==
    /\ ~config.simulation_mode
    /\ Len(log) = 3
    /\ log[1].event = "transcription" /\ log[1].code = 200
    /\ log[2].event = "call.ended"
    /\ log[3].dialect = "A" /\ log[3].data.event = "call.ringing"
    /\ log[3].body.status = "event_processed"
    /\ \E i \in RowsOf("c1") :
          /\ rows[i].status = "completed" /\ rows[i].end_time = 2
          /\ Len(rows[i].transcript) = 2 /\ rows[i].intent \in {"support", "general"}

(***************************************************************************)
(* C23.  Dialect B response selection: a status callback is answered with  *)
(* the spoken-prompt directive (TwiML) exactly when its status is one the  *)
(* status table maps to in-progress, whatever its letter case; every       *)
(* other Dialect B event is answered with the generic acknowledgement.     *)
(***************************************************************************)
\* The spellings, among the statuses delivered, that the table maps to
\* in-progress once lower-cased.
ConnectedStatuses == {"in-progress", "In-Progress"}

C23_DirectiveWhenConnected ==
    \A k \in 1..Len(log) :
        (log[k].op = "webhook" /\ log[k].dialect = "B" /\ log[k].code = 200) =>
            IF log[k].data.CallStatus \in ConnectedStatuses
            THEN log[k].body = Body(None, None, None, None, "twiml")
            ELSE log[k].body = Body(None, None, None, "event_processed", None)

(***************************************************************************)
(* C24.  One record per outbound call: the call_id the call handler puts   *)
(* into the provider's webhook and status-callback URLs for a call placed  *)
(* through initiate_call is the call_id of the record initiate_call        *)
(* created, so the events the provider delivers for the call are applied   *)
(* to that record and never create a second one.                           *)
(***************************************************************************)
C24_OneRecordPerOutboundCall ==
    \A k \in 1..Len(log) :
        (log[k].op = "handle_outbound_call" /\ log[k].data.query_call_id # None) =>
            /\ log[k].data.query_call_id = log[k].call_id
            /\ Cardinality(RowsOf(log[k].call_id)
                             \cup RowsOf(log[k].data.query_call_id)) = 1

(***************************************************************************)
(* C25.  Every stored record has a defined call_id: a delivery that        *)
(* carries no call_id, neither as query parameter nor in the body,         *)
(* creates no record and changes none, so events of two calls that both    *)
(* lack a call_id are never merged into one shared record.                 *)
(***************************************************************************)
C25_DefinedCallId ==
    [][/\ \A i \in 1..Len(rows') : rows'[i].call_id # None
       /\ (/\ Len(log') = Len(log) + 1
           /\ log'[Len(log')].op = "webhook"
           /\ log'[Len(log')].data.query_call_id = None
           /\ log'[Len(log')].data.call_id = None) => rows' = rows]_vars

=============================================================================
